---------------------------- MODULE Spec2Model ----------------------------
(***************************************************************************)
(* Model of iroh-dns-server's HTTP rate limiting                           *)
(* (src/iroh-dns-server/src/http/rate_limiting.rs).                        *)
(*                                                                         *)
(* `create` builds a tower_governor GovernorConfig (per_second(4),         *)
(* burst_size(2)), leaks it, spawns the garbage-collection thread and      *)
(* returns the GovernorLayer.  The layer's request path and the limiter    *)
(* (governor's keyed GCRA limiter over a DashMap of AtomicU64 cells) are   *)
(* the operations `create` wires together; they are modelled step by step  *)
(* so that every interleaving of request tasks and the GC thread is a      *)
(* behaviour of the model.                                                 *)
(*                                                                         *)
(* Time is counted in quarter seconds (UnitsPerSec units per second).      *)
(*                                                                         *)
(* The part of the server's Config that start-up reads                     *)
(* (src/iroh-dns-server/src/config.rs: http.rate_limit, metrics and        *)
(* Config::metrics_addr) is modelled as well.                              *)
(***************************************************************************)
EXTENDS Integers, FiniteSets, Sequences, TLC

\* ------------------------------------------------------------------ bounds
NumProcs == 2       \* request tasks running in parallel
NumBurstProcs == 3  \* request tasks running in parallel in a burst
MaxReqs == 4        \* requests served in one behaviour
MaxTicks == 3       \* clock advances in one behaviour
MaxEvents == 5      \* requests and clock advances together in one behaviour
UnitsPerSec == 4    \* resolution of the model's clock: 1 unit = 250 ms

\* --------------------------------------------------- program constants
PerSecond == 4      \* governor_conf_builder.per_second(4)
BurstSizeMut == 2 + 1 \* a burst size one too large
BurstSize == 2      \* governor_conf_builder.burst_size(2)
GcIntervalSecs == 60 \* Duration::from_secs(60)

\* enum RateLimitConfig
RateLimitConfig == {"Disabled", "Simple", "Smart"}

Max(a, b) == IF a >= b THEN a ELSE b
Min(a, b) == IF a <= b THEN a ELSE b

\* GovernorConfigBuilder::per_second(seconds): "the interval after which one
\* element of the quota is replenished", in seconds (here in clock units).
\* create's comment reads the pair of calls the same way: "replenish one
\* element every two seconds".
Period == PerSecond * UnitsPerSec
\* let gc_interval = Duration::from_secs(60)
gc_interval == GcIntervalSecs * UnitsPerSec

\* governor's Gcra::new(quota): t = replenish_1_per, tau = t * max_burst
GcraT == Period
GcraTau == Period * BurstSize

\* ------------------------------------------------------------- requests
IPs == {"a", "b"}
NoIp == "none"
\* A request: the connection's peer address (ConnectInfo, NoIp when the
\* extension is missing) and the client address a proxy header reports
\* (NoIp without such a header).
Request(peer, fwd) == [peer |-> peer, fwd |-> fwd]
Requests == {Request("a", NoIp), Request("b", NoIp), Request("a", "b"),
             Request(NoIp, NoIp), Request(NoIp, "b")}
NoReq == Request(NoIp, NoIp)

\* PeerIpKeyExtractor::extract: the ConnectInfo peer address, or the error
\* UnableToExtractKey (NoIp).
PeerIpKeyExtractor(req) == req.peer
\* SmartIpKeyExtractor::extract: the address of the forwarding headers when
\* present, else the peer address, else the error UnableToExtractKey.
\* (SmartIpKeyExtractorNoFallback: the faulty variant that reads the headers
\* only)
SmartIpKeyExtractorNoFallback(req) == req.fwd
SmartIpKeyExtractor(req) == IF req.fwd # NoIp THEN req.fwd ELSE req.peer

Absent == -1

\* ------------------------------------------------------------ the Config
\* const DEFAULT_METRICS_ADDR = 127.0.0.1:9117 (config.rs)
DEFAULT_METRICS_ADDR == "127.0.0.1:9117"
\* Socket addresses a configuration file may give for the metrics server
SocketAddrs == {DEFAULT_METRICS_ADDR, "0.0.0.0:9117", "127.0.0.1:9090"}
None == "None"

\* Config.metrics: Option<MetricsConfig>; MetricsConfig { disabled: bool,
\* bind_addr: Option<SocketAddr> }.  is_some = FALSE is Option::None.
NoMetricsConfig == [is_some |-> FALSE, disabled |-> FALSE, bind_addr |-> None]
MetricsConfigs ==
    {NoMetricsConfig} \cup
    [is_some : {TRUE}, disabled : BOOLEAN, bind_addr : SocketAddrs \cup {None}]

\* The part of Config read here: http.rate_limit: Option<RateLimitConfig>
\* and metrics.  Config::default() has both None.
Configs == [http_rate_limit : RateLimitConfig \cup {None},
            metrics : MetricsConfigs]
ConfigDefault == [http_rate_limit |-> None, metrics |-> NoMetricsConfig]

VARIABLES
    config,             \* the loaded Config
    metrics_bind,       \* the result of Config::metrics_addr, once called
    rate_limit_config,  \* the argument of create
    layer,              \* create's result: "Uncreated", "None", "Panicked" or
                        \* the key extractor of the returned GovernorLayer
    now,                \* the clock
    ticks,              \* clock advances so far
    store,              \* DashMap<IpAddr, AtomicU64>: key -> TAT cell
    proc,               \* request tasks
    ev,                 \* the garbage-collection thread
    reqs,               \* requests that arrived so far
    resp,               \* the response sent last
    nAllow,             \* history: checks of this instant admitted, per key
    nDeny,              \* history: checks of this instant denied, per key
    denied_before,      \* history: a check of the previous instant was
                        \* denied, per key
    last_update         \* history: the time of the last check, per key

vars == <<config, metrics_bind, rate_limit_config, layer, now, ticks, store, proc, ev, reqs,
          resp, nAllow, nDeny, denied_before, last_update>>

\* What the request path and the garbage collection never write
config_vars == <<config, metrics_bind, rate_limit_config>>

Procs == DOMAIN proc

IdleProc == [pc |-> "idle", req |-> NoReq, key |-> NoIp, t0 |-> 0,
             prev |-> 0, next |-> 0, earliest |-> 0, held |-> "none",
             outcome |-> "none"]

\* A response: what the limiter said, the HTTP status, the retry-after header
\* (seconds) and whether the inner service was called.
Response(outcome, status, retry, fwd) ==
    [outcome |-> outcome, status |-> status, retry |-> retry, fwd |-> fwd]
NoResp == Response("none", 0, 0, FALSE)

NoEv == [pc |-> "off", since |-> 0, drop_below |-> 0, todo |-> {}, len |-> 0]

\* impl Default for &RateLimitConfig (and #[default] on the enum): Simple
\* (DefaultDisabled: the faulty variant that leaves rate limiting off)
DefaultDisabled == "Disabled"
DefaultRateLimitConfig == "Simple"

\* The mode the HTTP server hands to create: the configured one, or the
\* default when http.rate_limit is None
EffectiveMode(rate_limit) ==
    IF rate_limit = None THEN DefaultRateLimitConfig ELSE rate_limit

\* Configurations that name their rate-limit mode and leave metrics alone
\* (a configuration without a mode runs as the one that names the default)
ExplicitConfigs ==
    {c \in Configs : c.http_rate_limit # None /\ c.metrics = NoMetricsConfig}

\* The state after start-up with one of the configurations cfgs and n
\* request tasks, before create is called
InitWith(n, cfgs) ==
    /\ config \in cfgs
    /\ metrics_bind = "Uncalled"
    /\ rate_limit_config = EffectiveMode(config.http_rate_limit)
    /\ layer = "Uncreated"
    /\ now = 0
    /\ ticks = 0
    /\ store = [k \in IPs |-> Absent]
    /\ proc = [p \in 1..n |-> IdleProc]
    /\ ev = NoEv
    /\ reqs = 0
    /\ resp = NoResp
    /\ nAllow = [k \in IPs |-> 0]
    /\ nDeny = [k \in IPs |-> 0]
    /\ denied_before = [k \in IPs |-> FALSE]
    /\ last_update = [k \in IPs |-> Absent]

Init == InitWith(NumProcs, ExplicitConfigs)
InitBurst == InitWith(NumBurstProcs, ExplicitConfigs)

\* ---------------------------------------------------------------- create
\* match rate_limit_config { Simple => false, Smart => true }
use_smart_extractor(cfg) == cfg = "Smart"

\* The key extractor of governor_conf_builder when finish() is called.
\* GovernorConfigBuilder::default() carries PeerIpKeyExtractor;
\* key_extractor(SmartIpKeyExtractor) returns a NEW builder of another type
\* and leaves the receiver as it was.  create drops that return value, and
\* its result type is GovernorLayer<'static, PeerIpKeyExtractor, _>.
BuilderKeyExtractor(smart) == IF smart THEN "PeerIp" ELSE "PeerIp"

\* GovernorConfigBuilder::finish(): None when burst_size or the period is 0
finish == IF BurstSize # 0 /\ Period # 0 THEN "Some" ELSE "None"

\* What create gives for a configuration: "None", a panic of
\* .expect("failed to build rate-limiting governor"), or Some(GovernorLayer)
\* (named by its key extractor).  CreateResultAlways: the faulty variant
\* without the early return for Disabled.
CreateResultAlways(cfg) ==
    IF finish = "None" THEN "Panicked"
    ELSE BuilderKeyExtractor(use_smart_extractor(cfg))
CreateResult(cfg) ==
    IF cfg = "Disabled" THEN "None"
    ELSE IF finish = "None" THEN "Panicked"
    ELSE BuilderKeyExtractor(use_smart_extractor(cfg))

\* create: the garbage-collection thread is spawned just before the layer
\* is returned
create ==
    /\ layer = "Uncreated"
    /\ layer' = CreateResult(rate_limit_config)
    /\ ev' = IF layer' \in {"PeerIp", "SmartIp"}
             THEN [NoEv EXCEPT !.pc = "sleep", !.since = now]
             ELSE ev
    /\ UNCHANGED <<config_vars, now, ticks, store, proc, reqs, resp,
                   nAllow, nDeny, denied_before, last_update>>

Serving == layer \in {"None", "PeerIp", "SmartIp"}

\* The key the layer's extractor gives for a request
ExtractKey(req) ==
    IF layer = "SmartIp" THEN SmartIpKeyExtractor(req)
    ELSE PeerIpKeyExtractor(req)

\* ----------------------------------------------------------------- clock
TickSteps == {1, Period, gc_interval}

Tick ==
    /\ Serving
    /\ ticks < MaxTicks
    /\ reqs + ticks < MaxEvents
    /\ \E d \in TickSteps : now' = now + d
    /\ ticks' = ticks + 1
    /\ nAllow' = [k \in IPs |-> 0]
    /\ nDeny' = [k \in IPs |-> 0]
    /\ denied_before' = [k \in IPs |-> nDeny[k] > 0]
    /\ UNCHANGED <<config_vars, layer, store, proc, ev, reqs, resp,
                   last_update>>

\* ------------------------------------------------------------------ GCRA
\* Gcra::starting_state
starting_state(t0) == t0 + GcraT

\* The cell's value as Option<Nanos> (NonZeroU64::new(prev)), defaulted
TatOf(prev, t0) == IF prev = 0 THEN starting_state(t0) ELSE prev

\* tat.saturating_sub(tau)
EarliestTime(tat) == Max(tat - GcraTau, 0)

\* The closure of Gcra::test_and_update: Err(earliest_time) when
\* t0 < earliest_time, else Ok(next) with next = max(tat, t0) + t
Decide(prev, t0) ==
    LET tat == TatOf(prev, t0)
        earliest_time == EarliestTime(tat)
    IN  IF t0 < earliest_time
        THEN [ok |-> FALSE, next |-> 0, earliest |-> earliest_time]
        ELSE [ok |-> TRUE, next |-> Max(tat, t0) + GcraT, earliest |-> 0]

\* ------------------------------------------------------------- the locks
\* DashMap guards: `get` holds the shard's read lock and `entry` its write
\* lock for as long as the returned reference lives, that is, through
\* measure_and_replace_one.  Each key is a shard of its own here.
\* (NoReaders: the faulty variant in which `get` holds no lock)
NoReaders(k) == {}
Readers(k) == {p \in Procs : proc[p].key = k /\ proc[p].held = "read"}
Writers(k) == {p \in Procs : proc[p].key = k /\ proc[p].held = "write"}

\* -------------------------------------------------------- the request path
\* Request tasks are anonymous: a request is served by the first free one.
Free == {p \in Procs : proc[p].pc = "idle"}
FreeTask == IF Free = {} THEN 0 ELSE CHOOSE p \in Free : \A q \in Free : p <= q

\* A request reaches the router.  Without a layer (create returned None) it
\* goes straight to the handler.  With the layer, Governor::call extracts the
\* key (an extraction error is answered by the error handler: 500) and
\* check_key reads the clock.
Arrive(p, req) ==
    /\ Serving
    /\ reqs < MaxReqs
    /\ reqs + ticks < MaxEvents
    /\ p = FreeTask
    /\ reqs' = reqs + 1
    /\ IF layer = "None"
       THEN /\ resp' = Response("none", 200, 0, TRUE)
            /\ proc' = proc
       ELSE IF ExtractKey(req) = NoIp
       THEN /\ resp' = Response("UnableToExtractKey", 500, 0, FALSE)
            /\ proc' = proc
       ELSE /\ resp' = resp
            /\ proc' = [proc EXCEPT ![p] =
                 [IdleProc EXCEPT !.pc = "get", !.req = req,
                                  !.key = ExtractKey(req), !.t0 = now]]
    /\ UNCHANGED <<config_vars, layer, now, ticks, store, ev,
                   nAllow, nDeny, denied_before, last_update>>

\* What a task becomes once the decision closure ran on the value `prev`:
\* on Ok it goes on to compare_exchange_weak with the new value, on Err it
\* returns the negative outcome at once (dropping the map guard).
Decided(q, prev) ==
    LET d == Decide(prev, q.t0)
    IN  IF d.ok
        THEN [q EXCEPT !.pc = "cas", !.req = NoReq, !.prev = prev,
                       !.next = d.next]
        ELSE [q EXCEPT !.pc = "respond", !.req = NoReq, !.prev = 0,
                       !.next = 0, !.held = "none", !.outcome = "Deny",
                       !.earliest = d.earliest]

\* The history after a check of task q on key k ended: it counts for this
\* instant when it read the clock at this instant
Counted(count, q, k) ==
    IF q.t0 = now THEN [count EXCEPT ![k] = @ + 1] ELSE count
Touched(q, k) == [last_update EXCEPT ![k] = Max(@, q.t0)]

\* The history after task q went from `old` to `new`
DenyCount(old, new) ==
    IF old.outcome # "Deny" /\ new.outcome = "Deny"
    THEN Counted(nDeny, old, old.key) ELSE nDeny
DenyTouch(old, new) ==
    IF old.outcome # "Deny" /\ new.outcome = "Deny"
    THEN Touched(old, old.key) ELSE last_update

\* DashMapStateStore::measure_and_replace, fast path: self.get(key) takes the
\* shard's read lock; on Some(v), measure_and_replace_one loads the cell and
\* runs the decision closure.  On None the guard is dropped and the slow
\* path follows.
Get(p) ==
    /\ proc[p].pc = "get"
    /\ Writers(proc[p].key) = {}
    /\ proc' = [proc EXCEPT ![p] =
         IF store[proc[p].key] # Absent
         THEN Decided([@ EXCEPT !.held = "read"], store[proc[p].key])
         ELSE [@ EXCEPT !.pc = "entry", !.req = NoReq]]
    /\ nDeny' = DenyCount(proc[p], proc'[p])
    /\ last_update' = DenyTouch(proc[p], proc'[p])
    /\ UNCHANGED <<config_vars, layer, now, ticks, store, ev, reqs, resp,
                   nAllow, denied_before>>

\* compare_exchange_weak(prev, new) succeeds when the cell still holds prev
\* (CasOkAlways: a plain store in its place, which loses updates)
CasOkAlways(cur, prev) == TRUE
CasOk(cur, prev) == cur = prev

\* The cells after the value `next` is stored for key k (StoredShared: the
\* faulty variant in which the keys share one cell; StoredCharged: the
\* faulty variant in which every write charges one more period)
StoredCharged(k, next) == [store EXCEPT ![k] = next + GcraT]
StoredShared(k, next) == [j \in IPs |-> IF j = k \/ store[j] # Absent
                                        THEN next ELSE store[j]]
Stored(k, next) == [store EXCEPT ![k] = next]

\* The positive outcome of task p on key k with new value `next`: the cell
\* is updated and Governor::call passes the request to the inner service.
Allowed(p, k, next) ==
    /\ store' = Stored(k, next)
    /\ proc' = [proc EXCEPT ![p] = IdleProc]
    /\ resp' = Response("Allow", 200, 0, TRUE)
    /\ nAllow' = Counted(nAllow, proc[p], k)
    /\ last_update' = Touched(proc[p], k)
    /\ nDeny' = nDeny

\* slow path: self.entry(key.clone()).or_default() takes the shard's write
\* lock and inserts a zero cell when the key is (still) absent; the task is
\* alone in the shard until measure_and_replace_one returns, so its load,
\* decision and compare-exchange are one step.
Entry(p) ==
    /\ proc[p].pc = "entry"
    /\ Writers(proc[p].key) = {}
    /\ Readers(proc[p].key) = {}
    /\ LET k == proc[p].key
           prev == IF store[k] = Absent THEN 0 ELSE store[k]
           d == Decide(prev, proc[p].t0)
       IN  IF d.ok
           THEN Allowed(p, k, d.next)
           ELSE /\ store' = Stored(k, prev)
                /\ proc' = [proc EXCEPT ![p] = Decided(@, prev)]
                /\ nDeny' = Counted(nDeny, proc[p], k)
                /\ last_update' = Touched(proc[p], k)
                /\ UNCHANGED <<resp, nAllow>>
    /\ UNCHANGED <<config_vars, layer, now, ticks, ev, reqs,
                   denied_before>>

\* InMemoryState::measure_and_replace_one's loop: compare_exchange_weak; Ok
\* returns the positive outcome, Err(next_prev) runs the closure again on
\* the value found.  (A spurious failure finds prev itself and changes
\* nothing.)
Cas(p) ==
    /\ proc[p].pc = "cas"
    /\ LET k == proc[p].key IN
       IF CasOk(store[k], proc[p].prev)
       THEN Allowed(p, k, proc[p].next)
       ELSE /\ store' = store
            /\ proc' = [proc EXCEPT ![p] = Decided(@, store[k])]
            /\ nDeny' = DenyCount(proc[p], proc'[p])
            /\ last_update' = DenyTouch(proc[p], proc'[p])
            /\ UNCHANGED <<resp, nAllow>>
    /\ UNCHANGED <<config_vars, layer, now, ticks, ev, reqs,
                   denied_before>>

\* negative.wait_time_from(clock.now()).as_secs(): whole seconds, rounded down
WaitTimeSecs(earliest, t) == Max(earliest - t, 0) \div UnitsPerSec

\* The negative outcome: Governor::call reads the clock for the wait time and
\* answers 429 with retry-after and x-ratelimit-after = wait_time; the inner
\* service is not called.  (DenyResponsePassedOn: the faulty variant that
\* calls the inner service all the same.)
DenyResponsePassedOn(earliest, t) ==
    Response("Deny", 200, WaitTimeSecs(earliest, t), TRUE)
DenyResponse(earliest, t) ==
    Response("Deny", 429, WaitTimeSecs(earliest, t), FALSE)

Respond(p) ==
    /\ proc[p].pc = "respond"
    /\ resp' = DenyResponse(proc[p].earliest, now)
    /\ proc' = [proc EXCEPT ![p] = IdleProc]
    /\ UNCHANGED <<config_vars, layer, now, ticks, store, ev, reqs,
                   nAllow, nDeny, denied_before, last_update>>

\* ------------------------------------------------ the garbage collection
\* std::thread::sleep(gc_interval) returns (not before gc_interval passed);
\* tracing::debug!("rate limiting storage size: {}", governor_limiter.len())
EvLen ==
    /\ ev.pc = "sleep"
    /\ now >= ev.since + gc_interval
    /\ ev' = [ev EXCEPT !.pc = "retain_recent",
                        !.len = Cardinality({k \in IPs : store[k] # Absent})]
    /\ UNCHANGED <<config_vars, layer, now, ticks, store, proc, reqs,
                   resp, nAllow, nDeny, denied_before, last_update>>

\* RateLimiter::retain_recent: drop_below = clock.now() - start
EvRetainRecent ==
    /\ ev.pc = "retain_recent"
    /\ ev' = [ev EXCEPT !.pc = "retain", !.drop_below = now, !.todo = IPs,
                        !.len = 0]
    /\ UNCHANGED <<config_vars, layer, now, ticks, store, proc, reqs,
                   resp, nAllow, nDeny, denied_before, last_update>>

\* InMemoryState::is_older_than(drop_below): the cell's value <= drop_below
\* (is_older_than_all: the faulty variant that drops every entry)
is_older_than_all(v, drop_below) == TRUE
is_older_than(v, drop_below) == v <= drop_below

\* DashMap::retain(|_, v| !v.is_older_than(drop_below)), one shard at a time
\* under the shard's write lock; after the last shard the loop sleeps again.
\* (EvRetainShardOnce: the faulty variant without the loop; the thread ends
\* after its first cycle.)
EvRetainShardOnce(k) ==
    /\ ev.pc = "retain"
    /\ k \in ev.todo
    /\ Readers(k) = {} /\ Writers(k) = {}
    /\ IF store[k] # Absent /\ is_older_than(store[k], ev.drop_below)
       THEN store' = [store EXCEPT ![k] = Absent]
       ELSE store' = store
    /\ ev' = IF ev.todo = {k} THEN NoEv ELSE [ev EXCEPT !.todo = @ \ {k}]
    /\ UNCHANGED <<config_vars, layer, now, ticks, proc, reqs, resp,
                   nAllow, nDeny, denied_before, last_update>>
EvRetainShard(k) ==
    /\ ev.pc = "retain"
    /\ k \in ev.todo
    /\ Readers(k) = {} /\ Writers(k) = {}
    /\ IF store[k] # Absent /\ is_older_than(store[k], ev.drop_below)
       THEN store' = [store EXCEPT ![k] = Absent]
       ELSE store' = store
    /\ ev' = IF ev.todo = {k}
             THEN [ev EXCEPT !.pc = "sleep", !.since = now, !.todo = {},
                             !.drop_below = 0]
             ELSE [ev EXCEPT !.todo = @ \ {k}]
    /\ UNCHANGED <<config_vars, layer, now, ticks, proc, reqs, resp,
                   nAllow, nDeny, denied_before, last_update>>

\* ------------------------------------------------------------------ Next
Next ==
    \/ create
    \/ Tick
    \/ \E p \in Procs, req \in Requests : Arrive(p, req)
    \/ \E p \in Procs : Get(p)
    \/ \E p \in Procs : Entry(p)
    \/ \E p \in Procs : Cas(p)
    \/ \E p \in Procs : Respond(p)
    \/ EvLen
    \/ EvRetainRecent
    \/ \E k \in IPs : EvRetainShard(k)

Spec == Init /\ [][Next]_vars

\* A burst: more request tasks, all at one instant (the clock stands still,
\* so the garbage collection never wakes).
NextBurst ==
    \/ create
    \/ \E p \in Procs, req \in Requests : Arrive(p, req)
    \/ \E p \in Procs : Get(p)
    \/ \E p \in Procs : Entry(p)
    \/ \E p \in Procs : Cas(p)
    \/ \E p \in Procs : Respond(p)

SpecBurst == InitBurst /\ [][NextBurst]_vars

\* Scheduling: the operating system runs the garbage-collection thread and
\* the runtime runs every request task, so a step that stays possible is
\* taken.  (The clock is not forced: it advances as far as the behaviour's
\* bounds let it.)
Fairness ==
    /\ WF_vars(EvLen)
    /\ WF_vars(EvRetainRecent)
    /\ WF_vars(\E k \in IPs : EvRetainShard(k))
    /\ \A p \in 1..NumProcs :
           WF_vars(Get(p) \/ Entry(p) \/ Cas(p) \/ Respond(p))

\* Behaviours without end are checked with the requests of one client
LiveRequests == {Request("a", NoIp)}
NextLive ==
    \/ create
    \/ Tick
    \/ \E p \in Procs, req \in LiveRequests : Arrive(p, req)
    \/ \E p \in Procs : Get(p)
    \/ \E p \in Procs : Entry(p)
    \/ \E p \in Procs : Cas(p)
    \/ \E p \in Procs : Respond(p)
    \/ EvLen
    \/ EvRetainRecent
    \/ \E k \in IPs : EvRetainShard(k)

SpecLive == Init /\ [][NextLive]_vars /\ Fairness

\* ---------------------------------------------------------- metrics_addr
\* Config::metrics_addr: the address the metrics server binds to, if any.
\* (metrics_addr_bind_first: the faulty variant in which a configured
\* bind_addr wins over disabled)
metrics_addr_bind_first(cfg) ==
    IF ~cfg.metrics.is_some THEN DEFAULT_METRICS_ADDR
    ELSE IF cfg.metrics.bind_addr # None THEN cfg.metrics.bind_addr
    ELSE IF cfg.metrics.disabled THEN None
    ELSE DEFAULT_METRICS_ADDR
metrics_addr(cfg) ==
    IF ~cfg.metrics.is_some THEN DEFAULT_METRICS_ADDR
    ELSE IF cfg.metrics.disabled THEN None
    ELSE IF cfg.metrics.bind_addr = None THEN DEFAULT_METRICS_ADDR
    ELSE cfg.metrics.bind_addr

\* The server asks for the metrics address
MetricsAddr ==
    /\ metrics_bind = "Uncalled"
    /\ metrics_bind' = metrics_addr(config)
    /\ UNCHANGED <<config, rate_limit_config, layer, now, ticks, store, proc,
                   ev, reqs, resp, nAllow, nDeny, denied_before, last_update>>

\* Start-up under every configuration: the metrics address is resolved and
\* the rate-limiting layer is created.
InitConfig == InitWith(NumProcs, Configs)
NextConfig ==
    \/ MetricsAddr
    \/ create

SpecConfig == InitConfig /\ [][NextConfig]_vars

\* ================================================================ claims
\* Checks of this instant that ended, per key
Completed(k) == nAllow[k] + nDeny[k]

\* C1: N concurrent checks at one instant on a key never seen before admit
\* exactly min(N, burst size) and deny the rest, whatever the interleaving of
\* their loads and compare-exchanges; every admission advanced the cell by
\* exactly one period (none counted twice, none lost).
C1_ConcurrentBurst ==
    \A k \in IPs :
        /\ nAllow[k] = Min(Completed(k), BurstSize)
        /\ store[k] # Absent => store[k] = GcraT * (1 + nAllow[k])

\* C1 witness: the last token is gone and a task that had loaded the cell
\* before is about to fail its compare-exchange
C1_Witness ==
    \E p \in Procs :
        /\ proc[p].pc = "cas"
        /\ store[proc[p].key] # proc[p].prev
        /\ nAllow[proc[p].key] = BurstSize
        /\ \E q \in Procs \ {p} : proc[q].key = proc[p].key

TokenUnits(k) == now + GcraTau + GcraT - TatOf(store[k], now)

\* C2: every key in the store holds at least 0 and at most burst-size
\* tokens: its credit is never negative, and no more than burst-size checks
\* of one instant are admitted (tokens <= capacity allows no more).
C2_TokensInRange ==
    \A k \in IPs :
        store[k] # Absent =>
            /\ 0 <= TokenUnits(k)
            /\ nAllow[k] <= BurstSize

\* C4: 0.25 s after a fresh key was drained and denied, one request of the
\* key is admitted and the next one is denied.
QuarterSec == UnitsPerSec \div 4
C4_RefillAfterQuarterSecond ==
    \A k \in IPs :
        (ticks = 1 /\ now = QuarterSec /\ denied_before[k]
                   /\ Completed(k) >= 1) => nAllow[k] = 1

\* C5: a step of a check on one key leaves every other key's cell and
\* history as they are.
C5_KeyIndependence ==
    [][\A p \in Procs :
         (proc[p].key # NoIp /\ proc'[p] # proc[p]) =>
             \A k \in IPs \ {proc[p].key} :
                 /\ store'[k] = store[k]
                 /\ last_update'[k] = last_update[k]
                 /\ nAllow'[k] = nAllow[k]
                 /\ nDeny'[k] = nDeny[k]]_vars

\* C5 witness: key a is drained and denied while key b, checked at the same
\* instant by another task, is admitted
C5_Witness ==
    /\ nAllow["a"] = BurstSize
    /\ nDeny["a"] >= 1
    /\ nAllow["b"] = 1
    /\ store["b"] = GcraT * 2

\* C6: the key of a request is the peer address in Simple mode and the
\* result of Smart extraction in Smart mode.
C6_ExtractorFollowsMode ==
    \A p \in Procs :
        proc[p].pc = "get" =>
            proc[p].key = IF rate_limit_config = "Smart"
                          THEN SmartIpKeyExtractor(proc[p].req)
                          ELSE PeerIpKeyExtractor(proc[p].req)

\* C7: with mode Disabled create returns no layer, every request goes to the
\* handler, and no cell, no check and no garbage collection ever exists.
C7_DisabledBypasses ==
    (rate_limit_config = "Disabled" /\ layer # "Uncreated") =>
        /\ layer = "None"
        /\ ev.pc = "off"
        /\ \A k \in IPs : store[k] = Absent
        /\ \A p \in Procs : proc[p] = IdleProc
        /\ reqs > 0 => resp = Response("none", 200, 0, TRUE)

\* C7 witness: more requests than the burst size were all passed on
C7_Witness ==
    /\ rate_limit_config = "Disabled"
    /\ reqs > BurstSize
    /\ resp.fwd

\* The eviction horizon of the specification: "a multiple of gc_interval";
\* the smallest one keeps the fewest entries "within the horizon".
eviction_horizon == gc_interval

\* A step in which the garbage collection looks at the cell of key k
Visit(k) ==
    /\ ev.pc = "retain"
    /\ k \in ev.todo
    /\ ev' # ev
    /\ k \notin ev'.todo
    /\ store[k] # Absent

C9_AllowForwardsDenyIs429 ==
    [][\A p \in Procs :
         (proc[p].pc # "idle" /\ proc'[p].pc = "idle") =>
             IF proc[p].pc = "respond"
             THEN /\ resp'.outcome = "Deny"
                  /\ resp'.status = 429
                  /\ ~resp'.fwd
                  /\ resp'.retry * UnitsPerSec <= Max(proc[p].earliest - now, 0)
                  /\ Max(proc[p].earliest - now, 0)
                         < (resp'.retry + 1) * UnitsPerSec
             ELSE resp' = Response("Allow", 200, 0, TRUE)]_vars

\* C9 witness: a denied request was answered 429 with a wait of whole seconds
C9_Witness ==
    /\ resp.outcome = "Deny"
    /\ resp.status = 429
    /\ resp.retry > 0
    /\ ~resp.fwd

\* C10: a request whose key cannot be extracted is not failed: it is passed
\* to the inner service.
C10_ExtractionFailsOpen ==
    resp.outcome = "UnableToExtractKey" => (resp.fwd /\ resp.status = 200)

C13_DefaultModeSimple ==
    config.http_rate_limit = None =>
        /\ rate_limit_config = "Simple"
        /\ layer # "Uncreated" => (layer = "PeerIp" /\ ev.pc = "sleep")

\* C13 witness: the default configuration, after create
C13_Witness ==
    /\ config = ConfigDefault
    /\ layer = "PeerIp"

\* C14: metrics_addr gives the default address when the metrics
\* configuration is absent, nothing exactly when it is present with
\* disabled = true, and otherwise bind_addr, or the default address when
\* bind_addr is unset.
C14_MetricsAddr ==
    metrics_bind # "Uncalled" =>
        /\ ~config.metrics.is_some => metrics_bind = DEFAULT_METRICS_ADDR
        /\ metrics_bind = None
               <=> (config.metrics.is_some /\ config.metrics.disabled)
        /\ (config.metrics.is_some /\ ~config.metrics.disabled) =>
               metrics_bind = IF config.metrics.bind_addr = None
                              THEN DEFAULT_METRICS_ADDR
                              ELSE config.metrics.bind_addr

\* C14 witness: disabled with a bind_addr set: no address
C14_Witness ==
    /\ config.metrics.is_some
    /\ config.metrics.disabled
    /\ config.metrics.bind_addr \in SocketAddrs
    /\ metrics_bind = None

\* The cell of key k as a check would load it (a missing key starts from 0)
CellOf(k) == IF store[k] = Absent THEN 0 ELSE store[k]

\* C15: a denied check is answered with the time after which the key has one
\* token again: when no check of the key was admitted since the decision, a
\* check made that long after the answer is admitted, both for the exact
\* wait and for the retry-after header sent.
C15_RetryAfterIsEnough ==
    [][\A p \in Procs :
         (/\ proc[p].pc = "respond"
          /\ proc'[p].pc = "idle"
          /\ EarliestTime(TatOf(CellOf(proc[p].key), now)) = proc[p].earliest)
         =>
             /\ Decide(CellOf(proc[p].key),
                       now + Max(proc[p].earliest - now, 0)).ok
             /\ Decide(CellOf(proc[p].key),
                       now + resp'.retry * UnitsPerSec).ok]_vars

\* C16: a check that finds its key missing (never seen, or removed by the
\* garbage collection) creates the entry as for a key never seen: it is
\* admitted and the cell depends on the check's time alone.  An entry a
\* check is updating is not removed under it, and a check that finds the
\* entry leaves it fully updated from the value it found.
C16_FreshAfterEviction ==
    [][\A p \in Procs :
         /\ (/\ proc[p].pc = "entry"
             /\ proc'[p] # proc[p]
             /\ store[proc[p].key] = Absent)
            => /\ store'[proc[p].key] = proc[p].t0 + 2 * GcraT
               /\ proc'[p] = IdleProc
               /\ resp'.outcome = "Allow"
         /\ proc'[p].pc = "cas" => store'[proc'[p].key] # Absent
         /\ (/\ proc[p].pc \in {"cas", "entry"}
             /\ proc'[p].pc = "idle"
             /\ store[proc[p].key] # Absent)
            => store'[proc[p].key]
                   = Max(store[proc[p].key], proc[p].t0) + GcraT]_vars

\* C16 witness: the scan under way has removed a key that was checked
\* before, and a check of that key, which found it missing, is about to
\* create it again
C16_Witness ==
    \E p \in Procs :
        /\ proc[p].pc = "entry"
        /\ store[proc[p].key] = Absent
        /\ last_update[proc[p].key] # Absent
        /\ ev.pc = "retain"
        /\ proc[p].key \notin ev.todo

\* How many of n checks made one after the other at time t are admitted,
\* starting from the cell value prev
RECURSIVE Admitted(_, _, _)
Admitted(prev, t, n) ==
    IF n = 0 THEN 0
    ELSE LET d == Decide(prev, t)
         IN  IF d.ok THEN 1 + Admitted(d.next, t, n - 1)
             ELSE Admitted(prev, t, n - 1)

\* Checks in a row compared with and without the removed entry
MaxRow == 4

\* C17: the garbage collection removes an entry only when that changes no
\* decision: the checks that follow are admitted or denied just as they
\* would be had the entry stayed.
C17_EvictionKeepsDecisions ==
    [][\A k \in IPs :
         (Visit(k) /\ store'[k] = Absent) =>
             \A n \in 1..MaxRow :
                 Admitted(0, now, n) = Admitted(store[k], now, n)]_vars

\* The layer exists, and with it the garbage-collection thread
RateLimitingEnabled == layer \in {"PeerIp", "SmartIp"}

C19_WindowRateBound ==
    \A k \in IPs :
        nAllow[k] + Admitted(CellOf(k), now, MaxRow) <= BurstSize

\* C20: a check that is denied, and the answer to it, leave every cell as it
\* is: the denied check takes nothing from the key, so the time from which
\* the key is admitted again stays the same whatever the number of denials.
C20_DenyConsumesNothing ==
    [][\A p \in Procs :
         (\/ proc[p].outcome # "Deny" /\ proc'[p].outcome = "Deny"
          \/ proc[p].pc = "respond" /\ proc'[p].pc = "idle")
         => LET k == proc[p].key
                cell_after == IF store'[k] = Absent THEN 0 ELSE store'[k]
            IN  /\ store' = store
                /\ EarliestTime(TatOf(cell_after, now))
                       = EarliestTime(TatOf(CellOf(k), now))]_vars

\* C20 witness: after two admissions at one instant two more checks of the
\* key were denied, and the cell is where the second admission left it
C20_Witness ==
    \E k \in IPs :
        /\ nAllow[k] = BurstSize
        /\ nDeny[k] = 2
        /\ store[k] = now + (BurstSize + 1) * GcraT
        /\ resp.outcome = "Deny"

============================================================================
